---- MODULE Spec2Model ----
(***************************************************************************)
(* EarlyAllocator (modules/bump_allocator): a double-ended bump allocator  *)
(* over one fixed region.  Bytes are allocated forward from start, pages   *)
(* backward from end:                                                      *)
(*                                                                         *)
(*     [ bytes-used | avail-area | pages-used ]                            *)
(*     start       b_pos        p_pos       end                            *)
(*                                                                         *)
(* All fields are usize.  The model keeps the word width (scaled down to   *)
(* WordBits bits) because the address arithmetic of alloc and alloc_pages  *)
(* is unchecked: with overflow checks compiled in ("debug") an overflowing *)
(* +, * or - panics, without them ("release") it wraps modulo 2^WordBits.  *)
(*                                                                         *)
(* HashMap (ulib/axstd collections): a chained hash table, a vector of     *)
(* buckets each holding a singly linked chain of entries, new entries are  *)
(* pushed at the head of their chain.  It has its own specification,       *)
(* SpecMap; under Spec the map stays as HashMap::new() made it, and under  *)
(* SpecMap the allocator stays as EarlyAllocator::new() made it.           *)
(***************************************************************************)
EXTENDS Integers, FiniteSets, Sequences, TLC

\* ---------------------------------------------------------------- bounds
WordBits == 5          \* width of usize in the model
MaxEpochAllocs == 2    \* cap on successful allocs between two bulk reclaims
MaxPageGrants == 2     \* cap on the number of successful alloc_pages calls
MaxBuckets == 8        \* cap on the bucket count a resize may reach
MaxKey == 3            \* keys are 1..MaxKey
MaxHash == 2           \* hash values are 0..MaxHash

\* ------------------------------------------------------------- constants
PAGE_SIZE == 4         \* const PAGE_SIZE: usize = SIZE (a power of two)
DefaultCapacity == 16  \* the bucket count of HashMap::new() / with_hasher

WordSize == 2^WordBits
USIZE_MAX == WordSize - 1
ISIZE_MAX == (WordSize \div 2) - 1

\* usize arithmetic without overflow checks: the result modulo 2^WordBits.
Wrap(x) == x % WordSize

\* Bitwise AND of two words, bit by bit.
RECURSIVE BitAnd(_, _)
BitAnd(a, b) ==
    IF a = 0 \/ b = 0 THEN 0
    ELSE (IF a % 2 = 1 /\ b % 2 = 1 THEN 1 ELSE 0) + 2 * BitAnd(a \div 2, b \div 2)

\* Bitwise NOT of a word.
BitNot(a) == USIZE_MAX - a

\* ---------------------------------------------------------------- inputs
\* Power-of-two alignments tried: none, a page, and the largest one a word
\* can hold.
Pow2Aligns == {1, PAGE_SIZE, WordSize \div 2}

\* Sizes tried by alloc: empty, just under a page, and the largest size a
\* Layout can hold.
AllocSizes == {0, PAGE_SIZE - 1, ISIZE_MAX}

\* core::alloc::Layout: align is a power of two and size, rounded up to
\* align, does not exceed isize::MAX.
Layouts ==
    {l \in [size : AllocSizes, align : Pow2Aligns] :
        l.size <= ISIZE_MAX - (l.align - 1)}

\* Page counts passed to alloc_pages: none, one, the last count whose byte
\* size fits a word, and the first whose byte size does not.
PageCounts == {0, 1, (WordSize \div PAGE_SIZE) - 1, WordSize \div PAGE_SIZE}

\* Layouts passed to dealloc (never read): the two extremes.
DeallocLayouts == {[size |-> 0, align |-> WordSize \div 2],
                   [size |-> ISIZE_MAX, align |-> 1]}

\* Regions <<start, size>> handed to init: [start, start + size) lies inside
\* the address space (start + size does not overflow).  One region in the
\* low half of the address space, one in the high half (kernel virtual
\* addresses) whose end is not page aligned.
Regions == {<<PAGE_SIZE, 2 * PAGE_SIZE>>,
            <<WordSize - 1 - (2 * PAGE_SIZE + 3), 2 * PAGE_SIZE + 3>>}

\* Addresses passed to dealloc (NonNull, otherwise arbitrary: never read).
DeallocPositions == {1, USIZE_MAX}

\* Arguments <<start, size>> passed to add_memory (never read): the regions
\* of init, an empty one and the largest pair of words.
AddMemoryArgs == Regions \cup {<<0, 0>>, <<USIZE_MAX, USIZE_MAX>>}

VARIABLES
    start, end, b_pos, p_pos, byte_count,   \* the fields of EarlyAllocator
    pc,               \* "Uninitialized", "Operating" or "Panicked"
    overflow_checks,  \* build profile: TRUE panics on overflow, FALSE wraps
    last,             \* the last call: operation, outcome, returned address
    byte_cover,       \* history: addresses inside byte grants made since byte_count was last 0
    page_cover,       \* history: addresses inside page grants ever made
    epoch_allocs,     \* history: successful allocs since byte_count was last 0
    page_grants,      \* history: number of successful alloc_pages calls
    page_regrant,     \* history: some page grant took an address of an earlier page grant
    outstanding,      \* history: successful allocs minus deallocs
    prev_end,         \* history: a + size of the most recent byte grant
    wrapped,          \* history: some alloc since byte_count was last 0 wrapped
    buckets, len, hasher,   \* the fields of HashMap
    m_last,           \* the last map call: operation and returned value
    shadow,           \* history: the plain key-to-value map the calls describe
    m_expect          \* history: what the plain map returns for the last call

vars == <<start, end, b_pos, p_pos, byte_count, pc, overflow_checks, last,
          byte_cover, epoch_allocs, page_cover, page_grants, page_regrant,
          outstanding, prev_end, wrapped>>

fields == <<start, end, b_pos, p_pos, byte_count>>
history == <<byte_cover, epoch_allocs, page_cover, page_grants, page_regrant,
             outstanding, prev_end, wrapped>>

map_vars == <<buckets, len, hasher, m_last, shadow, m_expect>>
all_vars == <<vars, map_vars>>

\* The addresses of the range [lo, lo + n).
Range(lo, n) == lo..(lo + n - 1)

Call(op, res, ret) == [op |-> op, res |-> res, ret |-> ret]

\* ------------------------------------------------------------------ new()
Init ==
    /\ start = 0 /\ end = 0 /\ b_pos = 0 /\ p_pos = 0 /\ byte_count = 0
    /\ pc = "Uninitialized"
    /\ overflow_checks \in BOOLEAN
    /\ last = Call("new", "Ok", 0)
    /\ byte_cover = {} /\ epoch_allocs = 0 /\ outstanding = 0
    /\ prev_end = 0 /\ wrapped = FALSE
    /\ page_cover = {} /\ page_grants = 0 /\ page_regrant = FALSE

\* ------------------------------------------------------------------ init
\* Variant of init: b_pos is left as new() made it.
init_keeps_b_pos(s, size) ==
    /\ UNCHANGED map_vars
    /\ pc = "Uninitialized"
    /\ start' = s
    /\ p_pos' = s + size
    /\ end' = s + size
    /\ pc' = "Operating"
    /\ last' = Call("init", "Ok", 0)
    /\ UNCHANGED <<b_pos, byte_count, overflow_checks, history>>

\* byte_count is not assigned: it keeps the 0 of new().
init(s, size) ==
    /\ UNCHANGED map_vars
    /\ pc = "Uninitialized"
    /\ start' = s
    /\ b_pos' = s
    /\ p_pos' = s + size
    /\ end' = s + size
    /\ pc' = "Operating"
    /\ last' = Call("init", "Ok", 0)
    /\ UNCHANGED <<byte_count, overflow_checks, history>>

\* ------------------------------------------------------------ add_memory
\* Variant of add_memory: the region is taken over and Ok returned.
add_memory_extends(s, size) ==
    /\ UNCHANGED map_vars
    /\ pc # "Panicked"
    /\ end' = Wrap(s + size)
    /\ last' = Call("add_memory", "Ok", 0)
    /\ UNCHANGED <<start, b_pos, p_pos, byte_count, pc, overflow_checks, history>>

\* Err(AllocError::NoMemory) whatever the arguments and the state: nothing
\* is read and nothing assigned.
add_memory(s, size) ==
    /\ UNCHANGED map_vars
    /\ pc # "Panicked"
    /\ last' = Call("add_memory", "NoMemory", 0)
    /\ UNCHANGED <<fields, pc, overflow_checks, history>>

\* ----------------------------------------------------------------- alloc
\* addr rounded up to align, before any wrap.
align_up(addr, align) ==
    LET misalign == addr % align
    IN  IF misalign # 0 THEN addr + (align - misalign) ELSE addr

\* The exhaustion test of alloc: TRUE when the request is refused.
alloc_no_memory(addr, size, p) == Wrap(addr + size) > p

\* Variant of alloc_refuse: the aligned address is stored into b_pos before
\* the exhaustion test.
alloc_refuse_early_commit(b, cnt, addr) ==
    [res |-> "NoMemory", ret |-> 0, b_pos |-> addr, byte_count |-> cnt]

\* The early return of alloc: NoMemory, nothing assigned.  (addr is the
\* aligned address computed so far; it is dropped.)
alloc_refuse(b, cnt, addr) ==
    [res |-> "NoMemory", ret |-> 0, b_pos |-> b, byte_count |-> cnt]

\* Variant of alloc_new_b_pos: the cursor stops at the granted address.
alloc_new_b_pos_forgets_size(addr, size) == addr

\* The cursor after a grant of size bytes at addr.
alloc_new_b_pos(addr, size) == Wrap(addr + size)

\* One call of alloc on cursors b, p and count cnt: the outcome, the
\* returned address, the new b_pos and byte_count, and whether the address
\* arithmetic overflowed.  (byte_count += 1 cannot overflow: the count
\* stays far below usize::MAX.)
alloc_step(b, p, cnt, size, align, checks) ==
    LET up == align_up(b, align)
        addr == Wrap(up)
        overflow == up > USIZE_MAX \/ addr + size > USIZE_MAX
    IN  IF checks /\ overflow
        THEN [res |-> "Panic", ret |-> 0, b_pos |-> b, byte_count |-> cnt,
              overflow |-> TRUE]
        ELSE IF alloc_no_memory(addr, size, p)
        THEN alloc_refuse(b, cnt, addr) @@ [overflow |-> overflow]
        ELSE [res |-> "Ok", ret |-> addr, b_pos |-> alloc_new_b_pos(addr, size),
              byte_count |-> cnt + 1, overflow |-> overflow]

alloc(layout) ==
    /\ UNCHANGED map_vars
    /\ pc = "Operating"
    /\ LET r == alloc_step(b_pos, p_pos, byte_count, layout.size, layout.align,
                           overflow_checks)
       IN  /\ r.res = "Ok" => epoch_allocs < MaxEpochAllocs
           /\ b_pos' = r.b_pos
           /\ byte_count' = r.byte_count
           /\ pc' = IF r.res = "Panic" THEN "Panicked" ELSE pc
           /\ last' = Call("alloc", r.res, r.ret)
           /\ IF r.res = "Ok"
              THEN /\ byte_cover' = byte_cover \cup Range(r.ret, layout.size)
                   /\ epoch_allocs' = epoch_allocs + 1
                   /\ outstanding' = outstanding + 1
                   /\ prev_end' = r.ret + layout.size
                   /\ wrapped' = (wrapped \/ r.overflow)
              ELSE UNCHANGED <<byte_cover, epoch_allocs, outstanding, prev_end,
                                wrapped>>
    /\ UNCHANGED <<start, end, p_pos, overflow_checks, page_cover, page_grants,
                   page_regrant>>

\* --------------------------------------------------------------- dealloc
\* Variant of dealloc_b_pos: the byte area is never reclaimed.
dealloc_b_pos_never_resets(cnt, b, s) == b

\* Variant of dealloc_b_pos: every dealloc reclaims the byte area.
dealloc_b_pos_always_resets(cnt, b, s) == s

\* b_pos after a dealloc that left the count at cnt.
dealloc_b_pos(cnt, b, s) == IF cnt = 0 THEN s ELSE b

\* Variant of dealloc_step: the count is not decremented.
dealloc_step_keeps_count(b, cnt, s, checks) ==
    [res |-> "Ok", b_pos |-> dealloc_b_pos(cnt, b, s), byte_count |-> cnt]

\* One call of dealloc: the outcome and the new b_pos and byte_count.
dealloc_step(b, cnt, s, checks) ==
    IF cnt = 0 /\ checks
    THEN [res |-> "Panic", b_pos |-> b, byte_count |-> cnt]
    ELSE LET c == Wrap(cnt - 1 + WordSize)
         IN  [res |-> "Ok", b_pos |-> dealloc_b_pos(c, b, s), byte_count |-> c]

\* The caller returns only what it was granted: dealloc is called while
\* some byte allocation is outstanding.  pos and the layout are not read.
dealloc(pos, layout) ==
    /\ UNCHANGED map_vars
    /\ pc = "Operating"
    /\ outstanding > 0
    /\ LET r == dealloc_step(b_pos, byte_count, start, overflow_checks)
       IN  /\ b_pos' = r.b_pos
           /\ byte_count' = r.byte_count
           /\ pc' = IF r.res = "Panic" THEN "Panicked" ELSE pc
           /\ last' = Call("dealloc", r.res, 0)
           /\ outstanding' = outstanding - 1
           /\ byte_cover' = IF outstanding - 1 = 0 THEN {} ELSE byte_cover
           /\ epoch_allocs' = IF outstanding - 1 = 0 THEN 0 ELSE epoch_allocs
           /\ wrapped' = IF outstanding - 1 = 0 THEN FALSE ELSE wrapped
    /\ UNCHANGED <<start, end, p_pos, overflow_checks, page_cover, page_grants,
                   page_regrant, prev_end>>

\* ----------------------------------------------------------- byte queries
\* a - b in usize where the build lets it complete: the difference modulo
\* 2^WordBits (with overflow checks a < b panics instead; the states the
\* checked build reaches never have b_pos < start).
usize_sub(a, b) == Wrap(a - b + WordSize)

total_bytes == end - start
used_bytes == usize_sub(b_pos, start)
available_bytes == IF p_pos > b_pos THEN p_pos - b_pos ELSE 0

\* ----------------------------------------------------------- alloc_pages
\* addr &= !mask with mask = align_pow2 - 1.
align_down(addr, align_pow2) == BitAnd(addr, BitNot(align_pow2 - 1))

\* One call of alloc_pages on cursors b, p: the outcome, the returned
\* address and the new p_pos.
alloc_pages_step(b, p, num_pages, align_pow2, checks) ==
    LET bytes == num_pages * PAGE_SIZE
        size == Wrap(bytes)
    IN  IF checks /\ bytes > USIZE_MAX
        THEN [res |-> "Panic", ret |-> 0, p_pos |-> p]
        ELSE IF size > p
        THEN [res |-> "NoMemory", ret |-> 0, p_pos |-> p]
        ELSE LET addr == align_down(p - size, align_pow2)
             IN  IF addr < b
                 THEN [res |-> "NoMemory", ret |-> 0, p_pos |-> p]
                 ELSE [res |-> "Ok", ret |-> addr, p_pos |-> addr]

alloc_pages(num_pages, align_pow2) ==
    /\ UNCHANGED map_vars
    /\ pc = "Operating"
    /\ LET r == alloc_pages_step(b_pos, p_pos, num_pages, align_pow2,
                                 overflow_checks)
       IN  /\ r.res = "Ok" => page_grants < MaxPageGrants
           /\ p_pos' = r.p_pos
           /\ pc' = IF r.res = "Panic" THEN "Panicked" ELSE pc
           /\ last' = Call("alloc_pages", r.res, r.ret)
           /\ IF r.res = "Ok"
              THEN /\ page_cover' =
                          page_cover \cup Range(r.ret, num_pages * PAGE_SIZE)
                   /\ page_regrant' =
                          (page_regrant
                           \/ page_cover \cap Range(r.ret, num_pages * PAGE_SIZE) # {})
                   /\ page_grants' = page_grants + 1
              ELSE UNCHANGED <<page_cover, page_grants, page_regrant>>
    /\ UNCHANGED <<start, end, b_pos, byte_count, overflow_checks, byte_cover,
                   epoch_allocs, outstanding, prev_end, wrapped>>

\* --------------------------------------------------------- dealloc_pages
\* Variant of dealloc_pages: an empty body, the call returns normally.
dealloc_pages_noop(pos, num_pages) ==
    /\ UNCHANGED map_vars
    /\ pc # "Panicked"
    /\ last' = Call("dealloc_pages", "Ok", 0)
    /\ UNCHANGED <<fields, pc, overflow_checks, history>>

\* todo!(): the call panics, whatever the arguments and the state.
dealloc_pages(pos, num_pages) ==
    /\ UNCHANGED map_vars
    /\ pc # "Panicked"
    /\ pc' = "Panicked"
    /\ last' = Call("dealloc_pages", "Panic", 0)
    /\ UNCHANGED <<fields, overflow_checks, history>>

\* ----------------------------------------------------------- page queries
total_pages == (end - start) \div PAGE_SIZE
used_pages == (end - p_pos) \div PAGE_SIZE
available_pages == IF p_pos > b_pos THEN (p_pos - b_pos) \div PAGE_SIZE ELSE 0

\* ========================================================================
\* HashMap<K, V, S>
\* ========================================================================
\* Option<V>: None is the empty sequence, Some(v) the one-element sequence.
None == <<>>
Some(v) == <<v>>

Keys == 1..MaxKey
Values == {1, 2}

\* A BuildHasher is modelled by the function it computes, key to hash
\* value; every such function into 0..MaxHash is tried.
Hashers == [Keys -> 0..MaxHash]

\* Capacities passed to with_capacity (0 is raised to 1).
Capacities == {0, 2}

\* A map value: the buckets (each a chain, head first, of entries) and len.
\* ret carries the value returned by the call that produced the map and
\* nest the deepest nesting of resize reached inside that call.
Map(b, n, ret, nest) == [buckets |-> b, len |-> n, ret |-> ret, nest |-> nest]

Entry(key, value) == [key |-> key, value |-> value]

\* with_capacity_and_hasher: capacity.max(1) empty buckets, len 0.
with_capacity_and_hasher(capacity, h) ==
    /\ buckets = [i \in 1..(IF capacity > 1 THEN capacity ELSE 1) |-> <<>>]
    /\ len = 0
    /\ hasher = h

\* hash_index: the hash modulo the bucket count (buckets are numbered from 1
\* here, from 0 in the Vec).
hash_index(h, key, n) == (h[key] % n) + 1

\* The position of the first entry of the chain that holds key, 0 if none.
chain_find(chain, key) ==
    LET S == {i \in 1..Len(chain) : chain[i].key = key}
    IN  IF S = {} THEN 0 ELSE CHOOSE i \in S : \A j \in S : i <= j

\* get: walk the chain of the key's bucket.
get(b, h, key) ==
    LET chain == b[hash_index(h, key, Len(b))]
        i == chain_find(chain, key)
    IN  IF i = 0 THEN None ELSE Some(chain[i].value)

contains_key(b, h, key) == get(b, h, key) # None

\* The entries in the order iter yields them (and resize walks them): bucket
\* by bucket, each chain from its head.
RECURSIVE iter_from(_, _)
iter_from(b, index) ==
    IF index > Len(b) THEN <<>> ELSE b[index] \o iter_from(b, index + 1)

iter(b) == iter_from(b, 1)

\* The test at the top of insert.
needs_resize(b, n) == n >= (Len(b) * 3) \div 4

\* insert found the key at position i of bucket idx: the value is replaced
\* and the old one returned.
insert_replace(m, idx, i, value) ==
    Map([m.buckets EXCEPT ![idx][i].value = value], m.len,
        Some(m.buckets[idx][i].value), m.nest)

\* insert did not find the key: a new entry is pushed at the head of bucket
\* idx and len incremented.
insert_push(m, idx, key, value) ==
    Map([m.buckets EXCEPT ![idx] = <<Entry(key, value)>> \o m.buckets[idx]],
        m.len + 1, None, m.nest)

\* insert after its resize test: the walk along the chain of bucket idx.
insert_walk(m, idx, key, value) ==
    IF chain_find(m.buckets[idx], key) # 0
    THEN insert_replace(m, idx, chain_find(m.buckets[idx], key), value)
    ELSE insert_push(m, idx, key, value)

RECURSIVE insert_step(_, _, _, _, _)
RECURSIVE reinsert(_, _, _, _, _)

\* resize at nesting depth: twice the buckets, all empty, len 0, then every
\* old entry put back through insert.
resize(m, h, depth) ==
    reinsert(Map([i \in 1..(Len(m.buckets) * 2) |-> <<>>], 0, None,
                 IF depth > m.nest THEN depth ELSE m.nest),
             h, iter(m.buckets), 1, depth)

\* The loop of resize over the old entries, from the one at position i.
reinsert(m, h, entries, i, depth) ==
    IF i > Len(entries) THEN m
    ELSE reinsert(insert_step(m, h, entries[i].key, entries[i].value, depth),
                  h, entries, i + 1, depth)

\* insert called with depth resizes around it (0 for a call of the user).
insert_step(m, h, key, value, depth) ==
    IF needs_resize(m.buckets, m.len)
    THEN insert_walk(resize(m, h, depth + 1),
                     hash_index(h, key, Len(m.buckets) * 2), key, value)
    ELSE insert_walk(m, hash_index(h, key, Len(m.buckets)), key, value)

\* remove found the key at position i > 1 of the chain: the entry is
\* unlinked and the call returns at once; the head taken out of the bucket
\* is dropped with all that hangs on it, and the bucket stays empty.
remove_found_later(chain, i) == <<>>

\* remove: the new buckets and len, and the value returned.
remove_step(m, h, key) ==
    LET idx == hash_index(h, key, Len(m.buckets))
        chain == m.buckets[idx]
        i == chain_find(chain, key)
    IN  IF i = 0 THEN Map(m.buckets, m.len, None, 0)
        ELSE IF i = 1
        THEN Map([m.buckets EXCEPT ![idx] = SubSeq(chain, 2, Len(chain))], m.len - 1,
                 Some(chain[1].value), 0)
        ELSE Map([m.buckets EXCEPT ![idx] = remove_found_later(chain, i)],
                 m.len - 1, Some(chain[i].value), 0)

\* clear: every bucket emptied, the bucket count kept, len 0.
clear_step(b) == [i \in 1..Len(b) |-> <<>>]

MapCall(op, ret) == [op |-> op, ret |-> ret]

\* The map as HashMap::new() makes it (the hasher seed is fixed here).
MapNew ==
    /\ with_capacity_and_hasher(DefaultCapacity, [k \in Keys |-> 0])
    /\ m_last = MapCall("new", None)
    /\ shadow = [k \in Keys |-> None]
    /\ m_expect = None

\* The map as with_capacity_and_hasher makes it.
MapInit ==
    /\ \E c \in Capacities, h \in Hashers : with_capacity_and_hasher(c, h)
    /\ m_last = MapCall("with_capacity_and_hasher", None)
    /\ shadow = [k \in Keys |-> None]
    /\ m_expect = None

insert(key, value) ==
    /\ needs_resize(buckets, len) => Len(buckets) * 2 <= MaxBuckets
    /\ LET r == insert_step(Map(buckets, len, None, 0), hasher, key, value, 0)
       IN  /\ buckets' = r.buckets
           /\ len' = r.len
           /\ m_last' = MapCall("insert", r.ret)
    /\ m_expect' = shadow[key]
    /\ shadow' = [shadow EXCEPT ![key] = Some(value)]
    /\ UNCHANGED <<hasher, vars>>

map_get(key) ==
    /\ m_last' = MapCall("get", get(buckets, hasher, key))
    /\ m_expect' = shadow[key]
    /\ UNCHANGED <<buckets, len, hasher, shadow, vars>>

map_contains_key(key) ==
    /\ m_last' = MapCall("contains_key", contains_key(buckets, hasher, key))
    /\ m_expect' = (shadow[key] # None)
    /\ UNCHANGED <<buckets, len, hasher, shadow, vars>>

remove(key) ==
    /\ LET r == remove_step(Map(buckets, len, None, 0), hasher, key)
       IN  /\ buckets' = r.buckets
           /\ len' = r.len
           /\ m_last' = MapCall("remove", r.ret)
    /\ m_expect' = shadow[key]
    /\ shadow' = [shadow EXCEPT ![key] = None]
    /\ UNCHANGED <<hasher, vars>>

clear ==
    /\ buckets' = clear_step(buckets)
    /\ len' = 0
    /\ m_last' = MapCall("clear", None)
    /\ m_expect' = None
    /\ shadow' = [k \in Keys |-> None]
    /\ UNCHANGED <<hasher, vars>>

MapNext ==
    \/ \E k \in Keys, v \in Values : insert(k, v)
    \/ \E k \in Keys : map_get(k)
    \/ \E k \in Keys : map_contains_key(k)
    \/ \E k \in Keys : remove(k)
    \/ clear

\* ------------------------------------------------------------------ Next
Next ==
    \/ \E r \in Regions : init(r[1], r[2])
    \/ \E r \in AddMemoryArgs : add_memory(r[1], r[2])
    \/ \E l \in Layouts : alloc(l)
    \/ \E pos \in DeallocPositions, l \in DeallocLayouts : dealloc(pos, l)
    \/ \E n \in PageCounts, a \in Pow2Aligns : alloc_pages(n, a)
    \/ \E pos \in DeallocPositions, n \in 0..1 : dealloc_pages(pos, n)

\* The allocator, next to a map that stays as HashMap::new() made it.
SpecInit == Init /\ MapNew

Spec == SpecInit /\ [][Next]_all_vars

\* The map, next to an allocator that stays as EarlyAllocator::new() made it.
SpecMapInit == MapInit /\ Init /\ overflow_checks = TRUE

SpecMap == SpecMapInit /\ [][MapNext]_all_vars

\* ------------------------------------------------------------------------
\* Step predicates used by the properties below.
\* ------------------------------------------------------------------------
\* The step is a call of dealloc.
IsDealloc == \E pos \in DeallocPositions, l \in DeallocLayouts : dealloc(pos, l)

\* The step is a call of add_memory.
IsAddMemory == \E r \in AddMemoryArgs : add_memory(r[1], r[2])

\* The step is a call of dealloc_pages.
IsDeallocPages == \E pos \in DeallocPositions, n \in 0..1 : dealloc_pages(pos, n)

\* The step is a call alloc(l) that returns Ok.
AllocOk(l) == alloc(l) /\ last'.res = "Ok"

\* The step is a call alloc(l) that returns Ok although its address
\* arithmetic overflowed (only the build without overflow checks does).
AllocWraps(l) ==
    /\ AllocOk(l)
    /\ alloc_step(b_pos, p_pos, byte_count, l.size, l.align, overflow_checks).overflow

\* The step is a call alloc_pages(n, a) that returns Ok.
AllocPagesOk(n, a) == alloc_pages(n, a) /\ last'.res = "Ok"

Initialized == pc # "Uninitialized"

\* ------------------------------------------------------------------------
\* C1: after init, every reachable state satisfies
\*     start <= b_pos <= p_pos <= end.
\* ------------------------------------------------------------------------
C1_CursorsOrdered ==
    Initialized => (start <= b_pos /\ b_pos <= p_pos /\ p_pos <= end)

\* ------------------------------------------------------------------------
\* C2: the ranges of the byte grants made since byte_count was last zero are
\*     disjoint from the ranges of all page grants, the page grants are
\*     pairwise disjoint, and every granted range lies inside [start, end).
\* ------------------------------------------------------------------------
C2_GrantsDisjoint ==
    Initialized =>
        /\ byte_cover \cap page_cover = {}
        /\ ~page_regrant
        /\ (byte_cover \cup page_cover) \subseteq start..(end - 1)

\* ------------------------------------------------------------------------
\* C3: an alloc or alloc_pages that returns NoMemory leaves start, end,
\*     b_pos, p_pos and byte_count exactly as they were.
\* ------------------------------------------------------------------------
C3_NoMemoryLeavesFields ==
    [][(last'.op \in {"alloc", "alloc_pages"} /\ last'.res = "NoMemory")
          => UNCHANGED fields]_vars

\* A refused alloc_pages after both sides have been used and a refused alloc
\* is possible too: the cursors are away from their initial positions.
C3_Witness ==
    /\ last.op = "alloc_pages" /\ last.res = "NoMemory"
    /\ b_pos > start /\ p_pos < end /\ byte_count > 0
    /\ alloc_step(b_pos, p_pos, byte_count, PAGE_SIZE - 1, 1, overflow_checks).res
           = "NoMemory"

\* ------------------------------------------------------------------------
\* C4: a successful alloc(size, align) returns an address a with
\*     a % align = 0, a >= b_pos before the call, and a + size <= p_pos.
\* ------------------------------------------------------------------------
C4_AllocResult ==
    [][\A l \in Layouts :
          AllocOk(l) =>
              /\ last'.ret % l.align = 0
              /\ last'.ret >= b_pos
              /\ last'.ret + l.size <= p_pos]_vars

\* ------------------------------------------------------------------------
\* C5: a successful alloc_pages(n, align) returns an address p with
\*     p % align = 0, p >= b_pos, p + n * PAGE_SIZE <= p_pos before the
\*     call, and p_pos after the call equal to p.
\* ------------------------------------------------------------------------
C5_AllocPagesResult ==
    [][\A n \in PageCounts, a \in Pow2Aligns :
          AllocPagesOk(n, a) =>
              /\ last'.ret % a = 0
              /\ last'.ret >= b_pos
              /\ last'.ret + n * PAGE_SIZE <= p_pos
              /\ p_pos' = last'.ret]_vars

\* ------------------------------------------------------------------------
\* C6: after init and after every operation, byte_count = 0 implies
\*     b_pos = start.
\* ------------------------------------------------------------------------
C6_ZeroCountMeansEmpty ==
    Initialized => (byte_count = 0 => b_pos = start)

\* The byte area has been used and then reclaimed by the last dealloc.
C6_Witness ==
    /\ last.op = "dealloc" /\ byte_count = 0
    /\ prev_end > start /\ b_pos = start

\* ------------------------------------------------------------------------
\* C7: whenever the deallocs equal the successful allocs in number, b_pos
\*     equals start and available_bytes() equals p_pos - start.
\* ------------------------------------------------------------------------
C7_BalancedRestores ==
    (pc = "Operating" /\ outstanding = 0) =>
        (b_pos = start /\ available_bytes = p_pos - start)

\* ------------------------------------------------------------------------
\* C8: a dealloc that leaves byte_count above zero changes nothing but
\*     byte_count; a dealloc resets b_pos to start exactly when it brings
\*     byte_count to zero.
\* ------------------------------------------------------------------------
C8_DeallocFrame ==
    [][IsDealloc =>
          /\ byte_count' = byte_count - 1
          /\ UNCHANGED <<start, end, p_pos>>
          /\ (byte_count' > 0 => b_pos' = b_pos)
          /\ (byte_count' = 0 => b_pos' = start)]_vars

\* A dealloc has left one allocation outstanding and the cursor in place.
C8_Witness ==
    /\ last.op = "dealloc" /\ byte_count > 0
    /\ b_pos > start /\ pc = "Operating"

C10_PageSidePermanent ==
    [][pc = "Operating" =>
          /\ p_pos' <= p_pos
          /\ used_pages' >= used_pages
          /\ p_pos' >= b_pos']_vars

\* ------------------------------------------------------------------------
\* C11: in every reachable state used_bytes() + available_bytes() is at most
\*      total_bytes(), and the two sides are equal in every state reached
\*      before any successful page allocation.
\* ------------------------------------------------------------------------
C11_ByteAccounting ==
    Initialized =>
        /\ used_bytes + available_bytes <= total_bytes
        /\ page_grants = 0 => used_bytes + available_bytes = total_bytes

\* ------------------------------------------------------------------------
\* C12: add_memory returns NoMemory for every (start, size) argument pair
\*      and in every state, and leaves start, end, b_pos, p_pos and
\*      byte_count unchanged.
\* ------------------------------------------------------------------------
C12_AddMemoryRefuses ==
    [][IsAddMemory => (last'.res = "NoMemory" /\ UNCHANGED fields)]_vars

\* add_memory has been refused on an allocator with both sides in use.
C12_Witness ==
    /\ last.op = "add_memory" /\ last.res = "NoMemory"
    /\ byte_count > 0 /\ b_pos > start /\ p_pos < end

\* ------------------------------------------------------------------------
\* C13: dealloc_pages is never a silent no-op: every call either returns an
\*      Unsupported error or aborts; it never completes normally and never
\*      returns a page to the pool (p_pos is not increased).
\* ------------------------------------------------------------------------
C13_DeallocPagesNeverSilent ==
    [][IsDeallocPages =>
          /\ last'.res = "Unsupported" \/ pc' = "Panicked"
          /\ last'.res # "Ok"
          /\ p_pos' <= p_pos]_vars

\* dealloc_pages has been called on an allocator that had granted pages, and
\* the call aborted.
C13_Witness ==
    /\ last.op = "dealloc_pages" /\ pc = "Panicked"
    /\ page_grants > 0 /\ p_pos < end

\* ------------------------------------------------------------------------
\* C14: an alloc_pages whose requested size count * PAGE_SIZE exceeds the
\*      current p_pos returns NoMemory instead of wrapping around, and
\*      leaves the state unchanged.
\* ------------------------------------------------------------------------
C14_HugePageRequestRefused ==
    [][\A n \in PageCounts, a \in Pow2Aligns :
          (alloc_pages(n, a) /\ n * PAGE_SIZE > p_pos) =>
              (last'.res = "NoMemory" /\ UNCHANGED fields)]_vars

\* ------------------------------------------------------------------------
\* C15: after every operation byte_count is >= 0 and equals the number of
\*      successful allocs minus the number of deallocs since init; an alloc
\*      that fails does not change it.
\* ------------------------------------------------------------------------
C15_CountIsOutstanding ==
    [][/\ byte_count' >= 0
       /\ byte_count' = outstanding'
       /\ \A l \in Layouts :
             (alloc(l) /\ last'.res # "Ok") => byte_count' = byte_count]_vars

\* An alloc failed while one of two allocations was still outstanding.
C15_Witness ==
    /\ last.op = "alloc" /\ last.res = "NoMemory"
    /\ epoch_allocs = 2 /\ outstanding = 1 /\ byte_count = 1

\* ------------------------------------------------------------------------
\* C16: init(start, size) establishes b_pos = start,
\*      p_pos = end = start + size and byte_count = 0.
\* ------------------------------------------------------------------------
C16_InitEstablishes ==
    [][\A r \in Regions :
          init(r[1], r[2]) =>
              /\ start' = r[1] /\ b_pos' = r[1]
              /\ p_pos' = r[1] + r[2] /\ end' = r[1] + r[2]
              /\ byte_count' = 0]_vars

\* init has just run on a region that does not start at address 0.
C16_Witness ==
    /\ last.op = "init" /\ pc = "Operating"
    /\ start > 0 /\ end > start /\ b_pos = start

\* ------------------------------------------------------------------------
\* C17: a successful alloc(size, align) with a power-of-two align returns
\*      the least multiple of align that is >= b_pos before the call, sets
\*      b_pos to that address + size, increases byte_count by exactly 1 and
\*      leaves p_pos, start and end unchanged; the call succeeds if and only
\*      if that address + size <= p_pos.
\* ------------------------------------------------------------------------
C17_AllocExact ==
    [][\A l \in Layouts :
          alloc(l) =>
              LET a == CHOOSE m \in b_pos..(b_pos + l.align - 1) : m % l.align = 0
              IN  /\ last'.res = "Ok" <=> a + l.size <= p_pos
                  /\ last'.res = "Ok" =>
                        /\ last'.ret = a
                        /\ b_pos' = a + l.size
                        /\ byte_count' = byte_count + 1
                        /\ UNCHANGED <<p_pos, start, end>>]_vars

\* ------------------------------------------------------------------------
\* C18: a successful alloc_pages(count, align_pow2) returns the greatest
\*      multiple of align_pow2 that is <= p_pos - count * PAGE_SIZE, sets
\*      p_pos to it and leaves b_pos, byte_count, start and end unchanged;
\*      the call succeeds if and only if p_pos >= count * PAGE_SIZE and that
\*      aligned address is >= b_pos.
\* ------------------------------------------------------------------------
C18_AllocPagesExact ==
    [][\A n \in PageCounts, a \in Pow2Aligns :
          alloc_pages(n, a) =>
              LET fits == p_pos >= n * PAGE_SIZE
                  t == IF fits THEN p_pos - n * PAGE_SIZE ELSE 0
                  g == t - (t % a)
              IN  /\ last'.res = "Ok" <=> (fits /\ g >= b_pos)
                  /\ last'.res = "Ok" =>
                        /\ last'.ret = g
                        /\ p_pos' = g
                        /\ UNCHANGED <<b_pos, byte_count, start, end>>]_vars

\* ------------------------------------------------------------------------
\* C19: HashMap refines a plain key-to-value map, for every hash function
\*      and every sequence of insert, remove, get, contains_key and clear
\*      (resizes included): get(k) returns the value of the most recent
\*      insert of k not followed by a remove of k or a clear, else None;
\*      insert returns the previous value of the key (None if absent);
\*      remove returns the removed value (None if absent) and leaves the
\*      mapping of every other key unchanged, wherever the key sits in its
\*      collision chain.
\* ------------------------------------------------------------------------
C19_RefinesPlainMap ==
    /\ m_last.ret = m_expect
    /\ \A k \in Keys : get(buckets, hasher, k) = shadow[k]

\* ------------------------------------------------------------------------
\* C20: in every reachable HashMap state len() equals the number of entries
\*      stored across all bucket chains (what iter yields), no key occurs
\*      in more than one entry, and every entry sits in the bucket its hash
\*      selects for the current bucket count; a resize keeps exactly the
\*      same key-value pairs, doubles the bucket count and triggers no
\*      nested resize while re-inserting.
\* ------------------------------------------------------------------------
C20_MapWellFormed ==
    LET es == iter(buckets)
    IN  /\ len = Len(es)
        /\ \A i, j \in 1..Len(es) : es[i].key = es[j].key => i = j
        /\ \A b \in 1..Len(buckets) : \A i \in 1..Len(buckets[b]) :
              hash_index(hasher, buckets[b][i].key, Len(buckets)) = b
        /\ needs_resize(buckets, len) =>
              LET r == resize(Map(buckets, len, None, 0), hasher, 1)
              IN  /\ {es[i] : i \in 1..Len(es)}
                        = {iter(r.buckets)[i] : i \in 1..Len(iter(r.buckets))}
                  /\ Len(iter(r.buckets)) = Len(es)
                  /\ Len(r.buckets) = 2 * Len(buckets)
                  /\ r.nest <= 1

====
